---- MODULE Spec2Model ----
(***************************************************************************)
(* Model of the instance commands of the protos CLI                        *)
(* (cmd/protos/instance.go, cmd/protos/cloud.go) and of cloud.NewClient    *)
(* (internal/cloud/cloud.go): deployInstance, deleteInstance and the       *)
(* start, stop, tunnel and key commands as step-by-step processes over a   *)
(* store (dbp) and a cloud provider client.  Every provider or store call  *)
(* of the code is one step; a call either fails (and the function returns  *)
(* the error) or succeeds with its effect.                                 *)
(*                                                                         *)
(* Specifications:                                                         *)
(*   Spec          deploy, delete, cloud accounts, volumes attached from   *)
(*                 outside; one command at a time                          *)
(*   SpecCommands  deploy, delete, cloud accounts and the start, stop,     *)
(*                 tunnel and key commands; one command at a time          *)
(*   SpecRedeploy  deploy and delete where the provider has room for a     *)
(*                 further instance                                        *)
(*   SpecWindow    a delete command of a second process inside a deploy    *)
(*   SpecNewClient calls of cloud.NewClient                                *)
(***************************************************************************)
EXTENDS Integers, Sequences, FiniteSets, TLC

VARIABLES
    clouds,      \* store: names of the saved cloud accounts
    cloudType,   \* store: cloud account name -> provider type ("" = no account)
    instances,   \* store: instance name -> persisted InstanceInfo
    images,      \* provider: image name -> image ID
    vms,         \* provider: vmID -> remote instance
    vols,        \* provider: volumeID -> "none" | "live" | "deleted"
    external,    \* provider: number of volumes attached from outside the CLI
    progress,    \* history: vmID -> how far the deploy run that created it got
                 \*   ("none", "created", "saved", "attachFailed", "started", and
                 \*    "deleted" once deleteInstance is through with it)
    dpc,         \* deployInstance: position in the function
    d,           \* deployInstance: arguments and local variables
    derr,        \* deployInstance: the step whose error was returned ("" = nil)
    dcalls,      \* deployInstance: provider and store calls issued by this run
    dpre,        \* history: the store's instances when this deploy run began
    xpc,         \* deleteInstance: position in the function
    x,           \* deleteInstance: argument and local variables (x.was: history,
                 \*   the progress of the record's instance when it was read)
    xerr,        \* deleteInstance: the step whose error was returned ("" = nil)
    xcalls,      \* deleteInstance: provider and store calls issued by this run
    xpre,        \* history: the store's instances when this delete run began
    dataVol,     \* history: vmID -> the volume deployInstance created for it (0 = none)
    opc,         \* start/stop/tunnel/key command: position in the function
    o,           \* start/stop/tunnel/key command: argument, locals, tunnel, channels
    oerr,        \* start/stop/tunnel/key command: the step whose error was returned
    ocalls,      \* start/stop/tunnel/key command: calls issued by this run
    nclient      \* cloud.NewClient: the calls made so far and what they returned

vars == <<clouds, cloudType, instances, images, vms, vols, external, progress,
          dpc, d, derr, dcalls, dpre, xpc, x, xerr, xcalls, xpre, dataVol,
          opc, o, oerr, ocalls, nclient>>

storeVars    == <<clouds, cloudType, instances>>
providerVars == <<images, vms, vols, external>>
deployVars   == <<dpc, d, derr, dcalls, dpre>>
deleteVars   == <<xpc, x, xerr, xcalls, xpre>>
cmdVars      == <<opc, o, oerr, ocalls>>

----------------------------------------------------------------------------
(* Bounds *)

MaxVMs == 1
MaxSeeds == 1
MaxExternal == 1
MaxClientCalls == 2

\* every instance gets one data volume from deployInstance
MaxVols == MaxVMs + MaxExternal

\* Spec lets MaxVMs instances exist; one more ID is there for the
\* specification of repeated deployment (SpecRedeploy)
VMIDs  == 1..(MaxVMs + 1)
VolIDs == 1..MaxVols
Seeds  == 1..MaxSeeds

Names      == {"web1", "web2"}
CloudNames == {"sw"}

----------------------------------------------------------------------------
(* Data *)

Scaleway == "scaleway"
DigitalOcean == "digitalocean"

SupportedProviders == {Scaleway}

\* release.Release values handed to deployInstance by the deploy command
Release10 ==
    [Version |-> "1.0",
     CloudImages |-> [p \in {Scaleway, DigitalOcean} |->
                        IF p = Scaleway
                        THEN [URL |-> "url-1.0-scaleway", Digest |-> "sha-1.0-scaleway"]
                        ELSE [URL |-> "url-1.0-digitalocean", Digest |-> "sha-1.0-digitalocean"]]]

Release11 ==
    [Version |-> "1.1",
     CloudImages |-> [p \in {DigitalOcean} |->
                        [URL |-> "url-1.1-digitalocean", Digest |-> "sha-1.1-digitalocean"]]]

Releases == {Release10, Release11}

ImageNameOf(version) == "protos-" \o version

ImageNames == {ImageNameOf(r.Version) : r \in Releases}

\* cloud.InstanceInfo{} : the zero value
NoInstanceInfo ==
    [Name |-> "", VMID |-> 0, CloudName |-> "", Volumes |-> <<>>, KeySeed |-> 0]

NoVM == [status |-> "none", name |-> "", pubKey |-> 0, volumes |-> <<>>]

\* one entry of a run's call log
Call(op, ok, arg, ret) == [op |-> op, ok |-> ok, arg |-> arg, ret |-> ret]

Max(S) == IF S = {} THEN 0 ELSE CHOOSE m \in S : \A n \in S : n <= m
Min(S) == CHOOSE m \in S : \A n \in S : m <= n

NoKey == [seed |-> 0, public |-> 0]

\* ed25519: the public key is a function of the seed
PublicOf(seed) == 100 + seed

\* ssh.GenerateKey / ssh.NewKeyFromSeed: the pair that belongs to a seed
KeyFromSeed(seed) == [seed |-> seed, public |-> PublicOf(seed)]

\* size handed to NewVolume
VolumeSize == 30000

NoLocals ==
    [name |-> "", cloud |-> "", release |-> Release10, imageID |-> 0,
     key |-> NoKey, vmID |-> 0, info |-> NoInstanceInfo, volumeID |-> 0]

NoDeleteLocals ==
    [name |-> "", instance |-> NoInstanceInfo, vmInfo |-> NoInstanceInfo, i |-> 0,
     was |-> "none"]

\* locals of startInstance, stopInstance, tunnelInstance and keyInstance;
\* tunnel: "none" | "open" | "closed"; notify: signal.Notify has been
\* called; sigs, quit: number of values in the two channels of capacity 1;
\* signalled (history): a signal was delivered after tunnel.Start succeeded
NoCmdLocals ==
    [cmd |-> "", name |-> "", instance |-> NoInstanceInfo, key |-> NoKey,
     tunnel |-> "none", notify |-> FALSE, sigs |-> 0, quit |-> 0,
     signalled |-> FALSE]

----------------------------------------------------------------------------
(* The store (dbp): records keyed by unique name *)

HasInstance(name) == name \in Names /\ instances[name].Name # ""

\* dbp.SaveInstance: the record is stored under its own name
StoreSaveInstance(info) == [instances EXCEPT ![info.Name] = info]

\* dbp.DeleteInstance
StoreDeleteInstance(name) == [instances EXCEPT ![name] = NoInstanceInfo]

----------------------------------------------------------------------------
(* The cloud provider behind cloud.Client *)

VMExists(v) == v \in VMIDs /\ vms[v].status = "live"
VolExists(w) == w \in VolIDs /\ vols[w] = "live"

FreshVMs  == {v \in 1..MaxVMs : vms[v].status = "none"}
UnusedVMs == {v \in VMIDs : vms[v].status = "none"}
FreshVols == {w \in VolIDs : vols[w] = "none"}

FreshImageID == 1 + Max({images[n] : n \in DOMAIN images})

\* client.AddImage registers the image under the release's image name
ProviderAddImage(version, id) ==
    [n \in DOMAIN images \cup {ImageNameOf(version)} |->
        IF n = ImageNameOf(version) THEN id ELSE images[n]]

\* client.NewInstance: a new, stopped instance without volumes
ProviderNewInstance(v, name, imageID, pubKey) ==
    [vms EXCEPT ![v] = [status |-> "live", name |-> name, pubKey |-> pubKey,
                        volumes |-> <<>>]]

\* client.GetInstanceInfo: a snapshot of the remote instance; the provider
\* knows no key seed
ProviderGetInstanceInfo(cloud, v) ==
    [Name |-> vms[v].name, VMID |-> v, CloudName |-> cloud,
     Volumes |-> vms[v].volumes, KeySeed |-> 0]

ProviderAttachVolume(w, v) ==
    [vms EXCEPT ![v].volumes = Append(@, w)]

\* client.DeleteInstance: the instance goes, its volumes stay
ProviderDeleteInstance(v) == [vms EXCEPT ![v] = [NoVM EXCEPT !.status = "deleted"]]

----------------------------------------------------------------------------
(* Single-process use: an operation starts only when none is running *)

Idle == dpc = "idle" /\ xpc = "idle" /\ opc = "idle"

EmptyStore == [n \in Names |-> NoInstanceInfo]

----------------------------------------------------------------------------
(* deployInstance *)

\* Fault: the data volume is created before the first save of the record.
DeployAfter_VolumeBeforeSave(step) ==
    CASE step = "GetCloud"         -> "Init"
      [] step = "Init"             -> "GetImages"
      [] step = "AddImage"         -> "GenerateKey"
      [] step = "GenerateKey"      -> "NewInstance"
      [] step = "NewInstance"      -> "GetInstanceInfo1"
      [] step = "GetInstanceInfo1" -> "NewVolume"
      [] step = "NewVolume"        -> "SaveInstance1"
      [] step = "SaveInstance1"    -> "AttachVolume"
      [] step = "AttachVolume"     -> "StartInstance"
      [] step = "StartInstance"    -> "GetInstanceInfo2"
      [] step = "GetInstanceInfo2" -> "SaveInstance2"
      [] step = "SaveInstance2"    -> "done"

\* Fault: the first save of the record is left out.
DeployAfter_NoFirstSave(step) ==
    CASE step = "GetCloud"         -> "Init"
      [] step = "Init"             -> "GetImages"
      [] step = "AddImage"         -> "GenerateKey"
      [] step = "GenerateKey"      -> "NewInstance"
      [] step = "NewInstance"      -> "GetInstanceInfo1"
      [] step = "GetInstanceInfo1" -> "NewVolume"
      [] step = "NewVolume"        -> "AttachVolume"
      [] step = "AttachVolume"     -> "StartInstance"
      [] step = "StartInstance"    -> "GetInstanceInfo2"
      [] step = "GetInstanceInfo2" -> "SaveInstance2"
      [] step = "SaveInstance2"    -> "done"

\* Fault: the first save of the record waits until the volume is attached.
DeployAfter_SaveAfterAttach(step) ==
    CASE step = "GetCloud"         -> "Init"
      [] step = "Init"             -> "GetImages"
      [] step = "AddImage"         -> "GenerateKey"
      [] step = "GenerateKey"      -> "NewInstance"
      [] step = "NewInstance"      -> "GetInstanceInfo1"
      [] step = "GetInstanceInfo1" -> "NewVolume"
      [] step = "NewVolume"        -> "AttachVolume"
      [] step = "AttachVolume"     -> "SaveInstance1"
      [] step = "SaveInstance1"    -> "StartInstance"
      [] step = "StartInstance"    -> "GetInstanceInfo2"
      [] step = "GetInstanceInfo2" -> "SaveInstance2"
      [] step = "SaveInstance2"    -> "done"

\* Fault: the final record is saved before the instance is started.
DeployAfter_SaveBeforeStart(step) ==
    CASE step = "GetCloud"         -> "Init"
      [] step = "Init"             -> "GetImages"
      [] step = "AddImage"         -> "GenerateKey"
      [] step = "GenerateKey"      -> "NewInstance"
      [] step = "NewInstance"      -> "GetInstanceInfo1"
      [] step = "GetInstanceInfo1" -> "SaveInstance1"
      [] step = "SaveInstance1"    -> "NewVolume"
      [] step = "NewVolume"        -> "AttachVolume"
      [] step = "AttachVolume"     -> "GetInstanceInfo2"
      [] step = "GetInstanceInfo2" -> "SaveInstance2"
      [] step = "SaveInstance2"    -> "StartInstance"
      [] step = "StartInstance"    -> "done"

\* the statement that follows a step of deployInstance that returned no error
DeployAfter(step) ==
    CASE step = "GetCloud"         -> "Init"
      [] step = "Init"             -> "GetImages"
      [] step = "AddImage"         -> "GenerateKey"
      [] step = "GenerateKey"      -> "NewInstance"
      [] step = "NewInstance"      -> "GetInstanceInfo1"
      [] step = "GetInstanceInfo1" -> "SaveInstance1"
      [] step = "SaveInstance1"    -> "NewVolume"
      [] step = "NewVolume"        -> "AttachVolume"
      [] step = "AttachVolume"     -> "StartInstance"
      [] step = "StartInstance"    -> "GetInstanceInfo2"
      [] step = "GetInstanceInfo2" -> "SaveInstance2"
      [] step = "SaveInstance2"    -> "done"

\* Fault: the error of ssh.GenerateKey is not checked.
DeployGoto_KeyErrorIgnored(step, ok) ==
    IF ok \/ step = "GenerateKey" THEN [pc |-> DeployAfter(step), err |-> ""]
                                  ELSE [pc |-> "done", err |-> step]

\* Fault: a StartInstance call that failed is issued again.
DeployGoto_RetryStart(step, ok) ==
    IF ok THEN [pc |-> DeployAfter(step), err |-> ""]
          ELSE IF step = "StartInstance"
               THEN [pc |-> "StartInstance", err |-> ""]
               ELSE [pc |-> "done", err |-> step]

\* err != nil: return the error; otherwise go on with the next statement
DeployGoto(step, ok) ==
    IF ok THEN [pc |-> DeployAfter(step), err |-> ""]
          ELSE [pc |-> "done", err |-> step]

\* Fault: a release whose image is not listed is never uploaded.
SelectImage_NoUpload(listed, release) ==
    IF ImageNameOf(release.Version) \in DOMAIN listed
    THEN [imageID |-> listed[ImageNameOf(release.Version)], next |-> "GenerateKey"]
    ELSE [imageID |-> 0, next |-> "done"]

\* Fault: the image is uploaded without looking at the listed images.
SelectImage_IgnoreListing(listed, release) ==
    IF "scaleway" \in DOMAIN release.CloudImages
    THEN [imageID |-> 0, next |-> "AddImage"]
    ELSE [imageID |-> 0, next |-> "done"]

\* the image branch: the listed image, else the release's Scaleway image,
\* else an error.  Returns the image ID known so far and the next statement.
SelectImage(listed, release) ==
    IF ImageNameOf(release.Version) \in DOMAIN listed
    THEN [imageID |-> listed[ImageNameOf(release.Version)], next |-> "GenerateKey"]
    ELSE IF "scaleway" \in DOMAIN release.CloudImages
         THEN [imageID |-> 0, next |-> "AddImage"]
         ELSE [imageID |-> 0, next |-> "done"]

\* the arguments of the AddImage call
AddImageArgs(release) ==
    <<release.CloudImages["scaleway"].URL, release.CloudImages["scaleway"].Digest,
      release.Version>>

\* Fault: NewInstance is handed the key's seed instead of its public key.
NewInstanceArgs_SeedAsKey(l) == <<l.name, l.imageID, l.key.seed>>

\* the arguments of the NewInstance call
NewInstanceArgs(l) == <<l.name, l.imageID, l.key.public>>

\* Fault: the key seed is put into the record before the first save.
FirstRecord_WithSeed(info, key) == [info EXCEPT !.KeySeed = key.seed]

\* the record of the first save: the snapshot as fetched
FirstRecord(info, key) == info

\* Fault: the key seed is not put into the record of the final save.
FinalRecord_NoSeed(info, key) == info

\* the record of the final save: the snapshot with the key seed
FinalRecord(info, key) == [info EXCEPT !.KeySeed = key.seed]

\* history: the instance of this run got as far as `how'
Progress(l, how) == [progress EXCEPT ![l.vmID] = how]

\* deployInstance is entered with its arguments
DeployBegin(name, cloud, release) ==
    /\ dpc = "idle"
    /\ dpc' = "GetCloud"
    /\ d' = [NoLocals EXCEPT !.name = name, !.cloud = cloud, !.release = release]
    /\ derr' = ""
    /\ dcalls' = <<>>
    /\ dpre' = instances
    /\ UNCHANGED <<storeVars, providerVars, progress,
                 dataVol, deleteVars, cmdVars, nclient>>

\* the deploy command, run while no other command is running
DeployStart(name, cloud, release) == Idle /\ DeployBegin(name, cloud, release)

\* provider, err := dbp.GetCloud(cloudName)
DeployGetCloud ==
    /\ dpc = "GetCloud"
    /\ LET ok == d.cloud \in clouds IN
        /\ dcalls' = Append(dcalls, Call("GetCloud", ok, <<d.cloud>>, 0))
        /\ dpc' = DeployGoto("GetCloud", ok).pc
        /\ derr' = DeployGoto("GetCloud", ok).err
    /\ UNCHANGED <<storeVars, providerVars, progress, dataVol,
                 d, dpre, deleteVars, cmdVars, nclient>>

\* err = client.Init(provider.Auth, cloudLocation)
DeployInit ==
    /\ dpc = "Init"
    /\ \E ok \in BOOLEAN :
        /\ dcalls' = Append(dcalls, Call("Init", ok, <<d.cloud>>, 0))
        /\ dpc' = DeployGoto("Init", ok).pc
        /\ derr' = DeployGoto("Init", ok).err
    /\ UNCHANGED <<storeVars, providerVars, progress, dataVol,
                 d, dpre, deleteVars, cmdVars, nclient>>

\* images, err := client.GetImages() and the choice of the image
DeployGetImages ==
    /\ dpc = "GetImages"
    /\ \E ok \in BOOLEAN :
        /\ dcalls' = Append(dcalls, Call("GetImages", ok, <<>>, IF ok THEN images ELSE <<>>))
        /\ IF ok
           THEN LET sel == SelectImage(images, d.release) IN
                /\ d' = [d EXCEPT !.imageID = sel.imageID]
                /\ dpc' = sel.next
                /\ derr' = IF sel.next = "done" THEN "Release" ELSE ""
           ELSE /\ d' = d
                /\ dpc' = DeployGoto("GetImages", FALSE).pc
                /\ derr' = DeployGoto("GetImages", FALSE).err
    /\ UNCHANGED <<storeVars, providerVars, progress, dataVol,
                 dpre, deleteVars, cmdVars, nclient>>

\* imageID, err = client.AddImage(image.URL, image.Digest, release.Version)
DeployAddImage ==
    /\ dpc = "AddImage"
    /\ \E ok \in BOOLEAN :
        /\ dcalls' = Append(dcalls, Call("AddImage", ok, AddImageArgs(d.release),
                                   IF ok THEN FreshImageID ELSE 0))
        /\ IF ok
           THEN /\ images' = ProviderAddImage(d.release.Version, FreshImageID)
                /\ d' = [d EXCEPT !.imageID = FreshImageID]
                /\ dpc' = DeployGoto("AddImage", TRUE).pc
                /\ derr' = DeployGoto("AddImage", TRUE).err
           ELSE /\ UNCHANGED <<images, d>>
                /\ dpc' = DeployGoto("AddImage", FALSE).pc
                /\ derr' = DeployGoto("AddImage", FALSE).err
    /\ UNCHANGED <<storeVars, vms, vols, external, progress,
                 dataVol, dpre, deleteVars, cmdVars, nclient>>

\* key, err := ssh.GenerateKey()
DeployGenerateKey ==
    /\ dpc = "GenerateKey"
    /\ \/ \E seed \in Seeds :
            /\ d' = [d EXCEPT !.key = KeyFromSeed(seed)]
            /\ dcalls' = Append(dcalls, Call("GenerateKey", TRUE, <<>>, KeyFromSeed(seed)))
            /\ dpc' = DeployGoto("GenerateKey", TRUE).pc
            /\ derr' = DeployGoto("GenerateKey", TRUE).err
       \/ /\ d' = d
          /\ dcalls' = Append(dcalls, Call("GenerateKey", FALSE, <<>>, NoKey))
          /\ dpc' = DeployGoto("GenerateKey", FALSE).pc
          /\ derr' = DeployGoto("GenerateKey", FALSE).err
    /\ UNCHANGED <<storeVars, providerVars, progress, dataVol,
                 dpre, deleteVars, cmdVars, nclient>>

\* vmID, err := client.NewInstance(instanceName, imageID, key.Public())
\* (the provider creates the instance under one of the IDs in `fresh')
DeployNewInstanceFrom(fresh) ==
    /\ dpc = "NewInstance"
    /\ \/ /\ fresh # {}
          /\ LET v == Min(fresh)
                 args == NewInstanceArgs(d) IN
              /\ vms' = ProviderNewInstance(v, args[1], args[2], args[3])
              /\ d' = [d EXCEPT !.vmID = v]
              /\ progress' = [progress EXCEPT ![v] = "created"]
              /\ dcalls' = Append(dcalls, Call("NewInstance", TRUE, NewInstanceArgs(d), v))
          /\ dpc' = DeployGoto("NewInstance", TRUE).pc
          /\ derr' = DeployGoto("NewInstance", TRUE).err
       \/ /\ UNCHANGED <<vms, d, progress>>
          /\ dcalls' = Append(dcalls, Call("NewInstance", FALSE, NewInstanceArgs(d), 0))
          /\ dpc' = DeployGoto("NewInstance", FALSE).pc
          /\ derr' = DeployGoto("NewInstance", FALSE).err
    /\ UNCHANGED <<storeVars, images, vols, external,
                 dpre, deleteVars, dataVol, cmdVars, nclient>>

DeployNewInstance == DeployNewInstanceFrom(FreshVMs)

\* the same statement where the provider has room for one more instance
RedeployNewInstance == DeployNewInstanceFrom(UnusedVMs)

\* instanceInfo, err := client.GetInstanceInfo(vmID)   (both places)
DeployGetInstanceInfo(step) ==
    /\ dpc = step
    /\ \E ok \in {b \in BOOLEAN : b => VMExists(d.vmID)} :
        /\ dcalls' = Append(dcalls, Call("GetInstanceInfo", ok, <<d.vmID>>, 0))
        /\ d' = IF ok THEN [d EXCEPT !.info = ProviderGetInstanceInfo(d.cloud, d.vmID)]
                      ELSE d
        /\ dpc' = DeployGoto(step, ok).pc
        /\ derr' = DeployGoto(step, ok).err
    /\ UNCHANGED <<storeVars, providerVars, progress, dataVol,
                 dpre, deleteVars, cmdVars, nclient>>

\* err = dbp.SaveInstance(instanceInfo)   (the first checkpoint)
DeploySaveInstance1 ==
    /\ dpc = "SaveInstance1"
    /\ LET rec == FirstRecord(d.info, d.key) IN
       \E ok \in BOOLEAN :
        /\ dcalls' = Append(dcalls, Call("SaveInstance", ok, <<rec>>, 0))
        /\ instances' = IF ok THEN StoreSaveInstance(rec) ELSE instances
        /\ d' = [d EXCEPT !.info = rec]
        /\ dpc' = DeployGoto("SaveInstance1", ok).pc
        /\ derr' = DeployGoto("SaveInstance1", ok).err
        /\ progress' = IF ok THEN Progress(d, "saved") ELSE progress
    /\ UNCHANGED <<clouds, cloudType, providerVars,
                 dataVol, dpre, deleteVars, cmdVars, nclient>>

\* volumeID, err := client.NewVolume(instanceName, 30000)
DeployNewVolume ==
    /\ dpc = "NewVolume"
    /\ \/ /\ FreshVols # {}
          /\ LET w == Min(FreshVols) IN
              /\ vols' = [vols EXCEPT ![w] = "live"]
              /\ d' = [d EXCEPT !.volumeID = w]
              /\ dataVol' = [dataVol EXCEPT ![d.vmID] = w]
              /\ dcalls' = Append(dcalls, Call("NewVolume", TRUE, <<d.name, VolumeSize>>, w))
          /\ dpc' = DeployGoto("NewVolume", TRUE).pc
          /\ derr' = DeployGoto("NewVolume", TRUE).err
       \/ /\ UNCHANGED <<vols, d, dataVol>>
          /\ dcalls' = Append(dcalls, Call("NewVolume", FALSE, <<d.name, VolumeSize>>, 0))
          /\ dpc' = DeployGoto("NewVolume", FALSE).pc
          /\ derr' = DeployGoto("NewVolume", FALSE).err
    /\ UNCHANGED <<storeVars, images, vms, external, progress,
                 dpre, deleteVars, cmdVars, nclient>>

\* err = client.AttachVolume(volumeID, vmID)
DeployAttachVolume ==
    /\ dpc = "AttachVolume"
    /\ \E ok \in {b \in BOOLEAN : b => (VMExists(d.vmID) /\ VolExists(d.volumeID))} :
        /\ dcalls' = Append(dcalls, Call("AttachVolume", ok, <<d.volumeID, d.vmID>>, 0))
        /\ vms' = IF ok THEN ProviderAttachVolume(d.volumeID, d.vmID) ELSE vms
        /\ dpc' = DeployGoto("AttachVolume", ok).pc
        /\ derr' = DeployGoto("AttachVolume", ok).err
        /\ progress' = IF ok THEN progress ELSE Progress(d, "attachFailed")
    /\ UNCHANGED <<storeVars, images, vols, external, d,
                 dpre, deleteVars, dataVol, cmdVars, nclient>>

\* err = client.StartInstance(vmID)
DeployStartInstance ==
    /\ dpc = "StartInstance"
    /\ \E ok \in {b \in BOOLEAN : b => VMExists(d.vmID)} :
        /\ dcalls' = Append(dcalls, Call("StartInstance", ok, <<d.vmID>>, 0))
        /\ dpc' = DeployGoto("StartInstance", ok).pc
        /\ derr' = DeployGoto("StartInstance", ok).err
        /\ progress' = IF ok THEN Progress(d, "started") ELSE progress
    /\ UNCHANGED <<storeVars, providerVars, d, dpre,
                 deleteVars, dataVol, cmdVars, nclient>>

\* instanceInfo.KeySeed = key.Seed(); err = dbp.SaveInstance(instanceInfo)
DeploySaveInstance2 ==
    /\ dpc = "SaveInstance2"
    /\ LET rec == FinalRecord(d.info, d.key) IN
       \E ok \in BOOLEAN :
        /\ dcalls' = Append(dcalls, Call("SaveInstance", ok, <<rec>>, 0))
        /\ instances' = IF ok THEN StoreSaveInstance(rec) ELSE instances
        /\ d' = [d EXCEPT !.info = rec]
        /\ dpc' = DeployGoto("SaveInstance2", ok).pc
        /\ derr' = DeployGoto("SaveInstance2", ok).err
    /\ UNCHANGED <<clouds, cloudType, providerVars, progress,
                 dataVol, dpre, deleteVars, cmdVars, nclient>>

\* deployInstance has returned and the process ends
DeployExit ==
    /\ dpc = "done"
    /\ dpc' = "idle"
    /\ d' = NoLocals
    /\ derr' = ""
    /\ dcalls' = <<>>
    /\ dpre' = EmptyStore
    /\ UNCHANGED <<storeVars, providerVars, progress,
                 dataVol, deleteVars, cmdVars, nclient>>

----------------------------------------------------------------------------
(* deleteInstance *)

\* Fault: the remote instance is not deleted.
DeleteAfter_NoDeleteInstance(step) ==
    CASE step = "GetInstance"     -> "GetCloud"
      [] step = "GetCloud"        -> "Init"
      [] step = "Init"            -> "StopInstance"
      [] step = "StopInstance"    -> "GetInstanceInfo"
      [] step = "GetInstanceInfo" -> "DeleteVolume"

\* the statement that follows a step of deleteInstance that returned no error
DeleteAfter(step) ==
    CASE step = "GetInstance"     -> "GetCloud"
      [] step = "GetCloud"        -> "Init"
      [] step = "Init"            -> "StopInstance"
      [] step = "StopInstance"    -> "GetInstanceInfo"
      [] step = "GetInstanceInfo" -> "DeleteInstance"
      [] step = "DeleteInstance"  -> "DeleteVolume"

\* Fault: the error of client.StopInstance is not checked.
DeleteGoto_StopErrorIgnored(step, ok) ==
    IF ok \/ step = "StopInstance" THEN [pc |-> DeleteAfter(step), err |-> ""]
                                   ELSE [pc |-> "done", err |-> step]

\* err != nil: return the error; otherwise go on with the next statement
DeleteGoto(step, ok) ==
    IF ok THEN [pc |-> DeleteAfter(step), err |-> ""]
          ELSE [pc |-> "done", err |-> step]

\* deleteInstance is entered with its argument
DeleteBegin(name) ==
    /\ xpc = "idle"
    /\ xpc' = "GetInstance"
    /\ x' = [NoDeleteLocals EXCEPT !.name = name]
    /\ xerr' = ""
    /\ xcalls' = <<>>
    /\ xpre' = instances
    /\ UNCHANGED <<storeVars, providerVars, progress,
                 dataVol, deployVars, cmdVars, nclient>>

\* the delete command, run while no other command is running
DeleteStart(name) == Idle /\ DeleteBegin(name)

\* instance, err := dbp.GetInstance(name)
DeleteGetInstance ==
    /\ xpc = "GetInstance"
    /\ LET ok == HasInstance(x.name) IN
        /\ xcalls' = Append(xcalls, Call("GetInstance", ok, <<x.name>>, 0))
        /\ x' = IF ok THEN [x EXCEPT !.instance = instances[x.name],
                                      !.was = IF instances[x.name].VMID \in VMIDs
                                              THEN progress[instances[x.name].VMID]
                                              ELSE "none"]
                      ELSE x
        /\ xpc' = DeleteGoto("GetInstance", ok).pc
        /\ xerr' = DeleteGoto("GetInstance", ok).err
    /\ UNCHANGED <<storeVars, providerVars, progress, dataVol,
                 deployVars, xpre, cmdVars, nclient>>

\* cloudInfo, err := dbp.GetCloud(instance.CloudName)
DeleteGetCloud ==
    /\ xpc = "GetCloud"
    /\ LET ok == x.instance.CloudName \in clouds IN
        /\ xcalls' = Append(xcalls, Call("GetCloud", ok, <<x.instance.CloudName>>, 0))
        /\ xpc' = DeleteGoto("GetCloud", ok).pc
        /\ xerr' = DeleteGoto("GetCloud", ok).err
    /\ UNCHANGED <<storeVars, providerVars, progress, dataVol,
                 deployVars, x, xpre, cmdVars, nclient>>

\* err = client.Init(cloudInfo.Auth, instance.Location)
DeleteInit ==
    /\ xpc = "Init"
    /\ \E ok \in BOOLEAN :
        /\ xcalls' = Append(xcalls, Call("Init", ok, <<x.instance.CloudName>>, 0))
        /\ xpc' = DeleteGoto("Init", ok).pc
        /\ xerr' = DeleteGoto("Init", ok).err
    /\ UNCHANGED <<storeVars, providerVars, progress, dataVol,
                 deployVars, x, xpre, cmdVars, nclient>>

\* err = client.StopInstance(instance.VMID)
DeleteStopInstance ==
    /\ xpc = "StopInstance"
    /\ \E ok \in {b \in BOOLEAN : b => VMExists(x.instance.VMID)} :
        /\ xcalls' = Append(xcalls, Call("StopInstance", ok, <<x.instance.VMID>>, 0))
        /\ xpc' = DeleteGoto("StopInstance", ok).pc
        /\ xerr' = DeleteGoto("StopInstance", ok).err
    /\ UNCHANGED <<storeVars, providerVars, progress, dataVol,
                 deployVars, x, xpre, cmdVars, nclient>>

\* vmInfo, err := client.GetInstanceInfo(instance.VMID)
DeleteGetInstanceInfo ==
    /\ xpc = "GetInstanceInfo"
    /\ \E ok \in {b \in BOOLEAN : b => VMExists(x.instance.VMID)} :
        /\ xcalls' = Append(xcalls, Call("GetInstanceInfo", ok, <<x.instance.VMID>>, 0))
        /\ x' = IF ok
                THEN [x EXCEPT !.vmInfo =
                        ProviderGetInstanceInfo(x.instance.CloudName, x.instance.VMID),
                               !.i = 1]
                ELSE x
        /\ xpc' = DeleteGoto("GetInstanceInfo", ok).pc
        /\ xerr' = DeleteGoto("GetInstanceInfo", ok).err
    /\ UNCHANGED <<storeVars, providerVars, progress, dataVol,
                 deployVars, xpre, cmdVars, nclient>>

\* err = client.DeleteInstance(instance.VMID)
DeleteDeleteInstance ==
    /\ xpc = "DeleteInstance"
    /\ \E ok \in {b \in BOOLEAN : b => VMExists(x.instance.VMID)} :
        /\ xcalls' = Append(xcalls, Call("DeleteInstance", ok, <<x.instance.VMID>>, 0))
        /\ vms' = IF ok THEN ProviderDeleteInstance(x.instance.VMID) ELSE vms
        /\ xpc' = DeleteGoto("DeleteInstance", ok).pc
        /\ xerr' = DeleteGoto("DeleteInstance", ok).err
    /\ UNCHANGED <<storeVars, images, vols, external, progress,
                 dataVol, deployVars, x, xpre, cmdVars, nclient>>

\* Fault: the loop over the volumes is left out.
VolumesToDelete_None(vmInfo) == <<>>

\* range vmInfo.Volumes: the volumes the provider reported for the instance
VolumesToDelete(vmInfo) == vmInfo.Volumes

\* Fault: the error of client.DeleteVolume is returned.
AfterDeleteVolume_Abort(ok) ==
    IF ok THEN [pc |-> "DeleteVolume", err |-> ""]
          ELSE [pc |-> "done", err |-> "DeleteVolume"]

\* what the volume loop does after a DeleteVolume call: log an error, go on
AfterDeleteVolume(ok) == [pc |-> "DeleteVolume", err |-> ""]

\* for _, vol := range vmInfo.Volumes { err = client.DeleteVolume(vol.VolumeID) }
DeleteDeleteVolume ==
    /\ xpc = "DeleteVolume"
    /\ x.i <= Len(VolumesToDelete(x.vmInfo))
    /\ LET w == VolumesToDelete(x.vmInfo)[x.i] IN
       \E ok \in {b \in BOOLEAN : b => VolExists(w)} :
        /\ xcalls' = Append(xcalls, Call("DeleteVolume", ok, <<w>>, 0))
        /\ vols' = IF ok THEN [vols EXCEPT ![w] = "deleted"] ELSE vols
        /\ x' = [x EXCEPT !.i = @ + 1]
        /\ xpc' = AfterDeleteVolume(ok).pc
        /\ xerr' = AfterDeleteVolume(ok).err
    /\ UNCHANGED <<storeVars, images, vms, external, progress,
                 dataVol, deployVars, xpre, cmdVars, nclient>>

\* return dbp.DeleteInstance(name)
DeleteStoreDelete ==
    /\ xpc = "DeleteVolume"
    /\ x.i > Len(VolumesToDelete(x.vmInfo))
    /\ LET ok == HasInstance(x.name) IN
        /\ xcalls' = Append(xcalls, Call("StoreDeleteInstance", ok, <<x.name>>, 0))
        /\ instances' = IF ok THEN StoreDeleteInstance(x.name) ELSE instances
        /\ xpc' = "done"
        /\ xerr' = IF ok THEN "" ELSE "StoreDeleteInstance"
    /\ progress' = [progress EXCEPT ![x.instance.VMID] = "deleted"]
    /\ UNCHANGED <<clouds, cloudType, providerVars, deployVars,
                 x, xpre, dataVol, cmdVars, nclient>>

\* deleteInstance has returned and the process ends
DeleteExit ==
    /\ xpc = "done"
    /\ xpc' = "idle"
    /\ x' = NoDeleteLocals
    /\ xerr' = ""
    /\ xcalls' = <<>>
    /\ xpre' = EmptyStore
    /\ dataVol' = IF xerr = "" /\ x.instance.VMID \in VMIDs
                  THEN [dataVol EXCEPT ![x.instance.VMID] = 0]
                  ELSE dataVol
    /\ UNCHANGED <<storeVars, providerVars, progress,
                 deployVars, cmdVars, nclient>>

----------------------------------------------------------------------------
(* startInstance, stopInstance, tunnelInstance, keyInstance *)

Commands == {"start", "stop", "tunnel", "key"}

\* Fault: the client is used without having been initialised.
PowerAfter_NoInit(step) ==
    CASE step = "GetInstance" -> "GetCloud"
      [] step = "GetCloud"    -> "Power"
      [] step = "Power"       -> "done"

\* the statement that follows a step of startInstance or stopInstance that
\* returned no error
PowerAfter(step) ==
    CASE step = "GetInstance" -> "GetCloud"
      [] step = "GetCloud"    -> "Init"
      [] step = "Init"        -> "Power"
      [] step = "Power"       -> "done"

\* the statement that follows a step of tunnelInstance that went well
TunnelAfter(step) ==
    CASE step = "GetInstance" -> "Key"
      [] step = "Key"         -> "Start"
      [] step = "Start"       -> "Notify"
      [] step = "Notify"      -> "Wait"
      [] step = "Wait"        -> "Close"
      [] step = "Close"       -> "done"

\* the statement that follows a step of keyInstance that went well
KeyAfter(step) ==
    CASE step = "GetInstance" -> "Key"
      [] step = "Key"         -> "Print"
      [] step = "Print"       -> "done"

CmdAfter(cmd, step) ==
    CASE cmd \in {"start", "stop"} -> PowerAfter(step)
      [] cmd = "tunnel"            -> TunnelAfter(step)
      [] cmd = "key"               -> KeyAfter(step)

\* err != nil: return the error; otherwise go on with the next statement
CmdGoto(cmd, step, ok) ==
    IF ok THEN [pc |-> CmdAfter(cmd, step), err |-> ""]
          ELSE [pc |-> "done", err |-> step]

\* Fault: the length of the key seed is not checked.
SeedMissing_Never(info) == FALSE

\* len(instanceInfo.KeySeed) == 0
SeedMissing(info) == info.KeySeed = 0

\* ssh.NewKeyFromSeed accepts a well-formed seed
SeedValid(seed) == seed \in Seeds

\* the provider operation of startInstance and of stopInstance
PowerOp(cmd) == IF cmd = "start" THEN "StartInstance" ELSE "StopInstance"

\* one of the four commands, run while no other command is running
CommandStart(cmd, name) ==
    /\ Idle
    /\ opc' = "GetInstance"
    /\ o' = [NoCmdLocals EXCEPT !.cmd = cmd, !.name = name]
    /\ oerr' = ""
    /\ ocalls' = <<>>
    /\ UNCHANGED <<storeVars, providerVars, progress, dataVol,
                 deployVars, deleteVars, nclient>>

\* instanceInfo, err := dbp.GetInstance(name)   (all four functions)
CommandGetInstance ==
    /\ opc = "GetInstance"
    /\ LET ok == HasInstance(o.name) IN
        /\ ocalls' = Append(ocalls, Call("GetInstance", ok, <<o.name>>, 0))
        /\ o' = IF ok THEN [o EXCEPT !.instance = instances[o.name]] ELSE o
        /\ opc' = CmdGoto(o.cmd, "GetInstance", ok).pc
        /\ oerr' = CmdGoto(o.cmd, "GetInstance", ok).err
    /\ UNCHANGED <<storeVars, providerVars, progress, dataVol,
                 deployVars, deleteVars, nclient>>

\* cloudInfo, err := dbp.GetCloud(instance.CloudName)
PowerGetCloud ==
    /\ opc = "GetCloud"
    /\ LET ok == o.instance.CloudName \in clouds IN
        /\ ocalls' = Append(ocalls, Call("GetCloud", ok, <<o.instance.CloudName>>, 0))
        /\ opc' = CmdGoto(o.cmd, "GetCloud", ok).pc
        /\ oerr' = CmdGoto(o.cmd, "GetCloud", ok).err
    /\ UNCHANGED <<storeVars, providerVars, progress, dataVol,
                 deployVars, deleteVars, o, nclient>>

\* err = client.Init(cloudInfo.Auth, instance.Location)
PowerInit ==
    /\ opc = "Init"
    /\ \E ok \in BOOLEAN :
        /\ ocalls' = Append(ocalls, Call("Init", ok, <<o.instance.CloudName>>, 0))
        /\ opc' = CmdGoto(o.cmd, "Init", ok).pc
        /\ oerr' = CmdGoto(o.cmd, "Init", ok).err
    /\ UNCHANGED <<storeVars, providerVars, progress, dataVol,
                 deployVars, deleteVars, o, nclient>>

\* err = client.StartInstance(instance.VMID) / client.StopInstance(instance.VMID)
PowerSwitch ==
    /\ opc = "Power"
    /\ \E ok \in {b \in BOOLEAN : b => VMExists(o.instance.VMID)} :
        /\ ocalls' = Append(ocalls, Call(PowerOp(o.cmd), ok, <<o.instance.VMID>>, 0))
        /\ opc' = CmdGoto(o.cmd, "Power", ok).pc
        /\ oerr' = CmdGoto(o.cmd, "Power", ok).err
    /\ UNCHANGED <<storeVars, providerVars, progress, dataVol,
                 deployVars, deleteVars, o, nclient>>

\* if len(instanceInfo.KeySeed) == 0 { return error };
\* key, err := ssh.NewKeyFromSeed(instanceInfo.KeySeed)   (tunnel and key)
CommandLoadKey ==
    /\ opc = "Key"
    /\ IF SeedMissing(o.instance)
       THEN /\ opc' = "done"
            /\ oerr' = "MissingKey"
            /\ UNCHANGED <<o, ocalls>>
       ELSE LET seed == o.instance.KeySeed
                ok   == SeedValid(seed) IN
            /\ ocalls' = Append(ocalls, Call("NewKeyFromSeed", ok, <<seed>>,
                                        IF ok THEN KeyFromSeed(seed) ELSE NoKey))
            /\ o' = IF ok THEN [o EXCEPT !.key = KeyFromSeed(seed)] ELSE o
            /\ opc' = CmdGoto(o.cmd, "Key", ok).pc
            /\ oerr' = CmdGoto(o.cmd, "Key", ok).err
    /\ UNCHANGED <<storeVars, providerVars, progress, dataVol,
                 deployVars, deleteVars, nclient>>

\* the arguments of ssh.NewTunnel: the instance the tunnel leads to and the
\* key it authenticates with
NewTunnelArgs(l) == <<l.instance.VMID, l.key.public>>

\* tunnel := ssh.NewTunnel(...); localPort, err := tunnel.Start()
TunnelStart ==
    /\ opc = "Start"
    /\ \E ok \in BOOLEAN :
        /\ ocalls' = Append(ocalls, Call("Start", ok, NewTunnelArgs(o), 0))
        /\ o' = IF ok THEN [o EXCEPT !.tunnel = "open"] ELSE o
        /\ opc' = CmdGoto(o.cmd, "Start", ok).pc
        /\ oerr' = CmdGoto(o.cmd, "Start", ok).err
    /\ UNCHANGED <<storeVars, providerVars, progress, dataVol,
                 deployVars, deleteVars, nclient>>

\* quit, sigs := make(chan ..., 1); signal.Notify(sigs, SIGINT, SIGTERM);
\* go catchSignals(sigs, quit)
TunnelNotify ==
    /\ opc = "Notify"
    /\ o' = [o EXCEPT !.notify = TRUE]
    /\ opc' = CmdGoto(o.cmd, "Notify", TRUE).pc
    /\ UNCHANGED <<storeVars, providerVars, progress, dataVol,
                 deployVars, deleteVars, oerr, ocalls, nclient>>

\* SIGINT or SIGTERM is delivered to the process while the tunnel is up:
\* once signal.Notify has run the signal goes into sigs (and is dropped if
\* sigs is full), before that it ends the process
Signal ==
    /\ opc \in {"Notify", "Wait", "Close"}
    /\ IF o.notify
       THEN /\ o.sigs = 0
            /\ o' = [o EXCEPT !.sigs = 1, !.signalled = TRUE]
            /\ opc' = opc
       ELSE /\ o' = [o EXCEPT !.signalled = TRUE]
            /\ opc' = "killed"
    /\ UNCHANGED <<storeVars, providerVars, progress, dataVol,
                 deployVars, deleteVars, oerr, ocalls, nclient>>

\* catchSignals(sigs, quit): a signal taken from sigs is passed on to quit
CatchSignals ==
    /\ opc \in {"Wait", "Close"}
    /\ o.sigs = 1
    /\ o.quit = 0
    /\ o' = [o EXCEPT !.sigs = 0, !.quit = 1]
    /\ UNCHANGED <<storeVars, providerVars, progress, dataVol,
                 deployVars, deleteVars, opc, oerr, ocalls, nclient>>

\* <-quit
TunnelQuit ==
    /\ opc = "Wait"
    /\ o.quit = 1
    /\ o' = [o EXCEPT !.quit = 0]
    /\ opc' = CmdGoto(o.cmd, "Wait", TRUE).pc
    /\ UNCHANGED <<storeVars, providerVars, progress, dataVol,
                 deployVars, deleteVars, oerr, ocalls, nclient>>

\* err = tunnel.Close()
TunnelClose ==
    /\ opc = "Close"
    /\ \E ok \in BOOLEAN :
        /\ ocalls' = Append(ocalls, Call("Close", ok, <<>>, 0))
        /\ o' = IF ok THEN [o EXCEPT !.tunnel = "closed"] ELSE o
        /\ opc' = CmdGoto(o.cmd, "Close", ok).pc
        /\ oerr' = CmdGoto(o.cmd, "Close", ok).err
    /\ UNCHANGED <<storeVars, providerVars, progress, dataVol,
                 deployVars, deleteVars, nclient>>

\* fmt.Print(key.EncodePrivateKeytoPEM())
KeyPrint ==
    /\ opc = "Print"
    /\ opc' = CmdGoto(o.cmd, "Print", TRUE).pc
    /\ UNCHANGED <<storeVars, providerVars, progress, dataVol,
                 deployVars, deleteVars, o, oerr, ocalls, nclient>>

\* the function has returned, or the process was ended by a signal
CommandExit ==
    /\ opc \in {"done", "killed"}
    /\ opc' = "idle"
    /\ o' = NoCmdLocals
    /\ oerr' = ""
    /\ ocalls' = <<>>
    /\ UNCHANGED <<storeVars, providerVars, progress, dataVol,
                 deployVars, deleteVars, nclient>>

----------------------------------------------------------------------------
(* Cloud accounts (cmd/protos/cloud.go) *)

\* addCloudProvider: a supported provider is chosen, the client is
\* initialised and, if that worked, the account is saved
AddCloudProvider(name) ==
    /\ Idle
    /\ name \notin clouds
    /\ \E type \in SupportedProviders, ok \in BOOLEAN :
        /\ clouds' = IF ok THEN clouds \cup {name} ELSE clouds
        /\ cloudType' = IF ok THEN [cloudType EXCEPT ![name] = type] ELSE cloudType
    /\ UNCHANGED <<instances, providerVars, progress, dataVol,
                 deployVars, deleteVars, cmdVars, nclient>>

\* deleteCloudProvider: return dbp.DeleteCloud(name)
DeleteCloudProvider(name) ==
    /\ Idle
    /\ name \in clouds
    /\ clouds' = clouds \ {name}
    /\ cloudType' = [cloudType EXCEPT ![name] = ""]
    /\ UNCHANGED <<instances, providerVars, progress, dataVol,
                 deployVars, deleteVars, cmdVars, nclient>>

----------------------------------------------------------------------------
(* cloud.NewClient (internal/cloud/cloud.go) *)

\* names NewClient is called with: the two providers and two other names
ProviderNames == {Scaleway, DigitalOcean, "aws", ""}

NilClient == ""
NoError == ""

\* what newDigitalOceanClient / newScalewayClient may return: a client or
\* none, an error or none
Outcomes == [hasClient : BOOLEAN, failed : BOOLEAN]

\* client, err = newDigitalOceanClient() / newScalewayClient()
Construct(provider, outcome) ==
    [client |-> IF outcome.hasClient THEN provider \o "-client" ELSE NilClient,
     err    |-> IF outcome.failed THEN provider \o ": client failed" ELSE NoError]

\* errors.Errorf("Cloud '%s' not supported", cloud)
NotSupported(cloud) == "Cloud '" \o cloud \o "' not supported"

\* Fault: the switch has no case for Scaleway.
NewClient_ScalewayMissing(cloud, outcome) ==
    LET r == IF cloud = DigitalOcean
             THEN Construct(DigitalOcean, outcome)
             ELSE [client |-> NilClient, err |-> NotSupported(cloud)]
    IN  IF r.err # NoError THEN [client |-> NilClient, err |-> r.err]
                           ELSE [client |-> r.client, err |-> NoError]

\* NewClient(cloud): the switch over the name, then
\* if err != nil { return nil, err }; return client, nil
NewClient(cloud, outcome) ==
    LET r == CASE cloud = DigitalOcean -> Construct(DigitalOcean, outcome)
               [] cloud = Scaleway     -> Construct(Scaleway, outcome)
               [] OTHER                -> [client |-> NilClient, err |-> NotSupported(cloud)]
    IN  IF r.err # NoError THEN [client |-> NilClient, err |-> r.err]
                           ELSE [client |-> r.client, err |-> NoError]

\* a call of NewClient, recorded with what it returned
NewClientCall(cloud, outcome) ==
    /\ Len(nclient) < MaxClientCalls
    /\ nclient' = Append(nclient, [cloud |-> cloud, made |-> outcome,
                                   result |-> NewClient(cloud, outcome)])
    /\ UNCHANGED <<storeVars, providerVars, progress, dataVol,
                 deployVars, deleteVars, cmdVars>>

----------------------------------------------------------------------------
(* The provider account is also used from outside the CLI: a further       *)
(* volume is created and attached to an instance that has been deployed    *)
(* and started.                                                            *)

ExternalAttachVolume(v) ==
    /\ Idle
    /\ VMExists(v)
    /\ progress[v] = "started"
    /\ FreshVols # {}
    /\ external < MaxExternal
    /\ external' = external + 1
    /\ LET w == Min(FreshVols) IN
        /\ vols' = [vols EXCEPT ![w] = "live"]
        /\ vms' = ProviderAttachVolume(w, v)
    /\ UNCHANGED <<storeVars, images, progress, dataVol,
                 deployVars, deleteVars, cmdVars, nclient>>

----------------------------------------------------------------------------

InitialImageID(n) == IF n = ImageNameOf(Release10.Version) THEN 1 ELSE 2

Init ==
    /\ clouds = {}
    /\ cloudType = [c \in CloudNames |-> ""]
    /\ instances = EmptyStore
    /\ \E present \in SUBSET ImageNames :
        images = [n \in present |-> InitialImageID(n)]
    /\ vms = [v \in VMIDs |-> NoVM]
    /\ vols = [w \in VolIDs |-> "none"]
    /\ external = 0
    /\ progress = [v \in VMIDs |-> "none"]
    /\ dpc = "idle"
    /\ d = NoLocals
    /\ derr = ""
    /\ dcalls = <<>>
    /\ dpre = EmptyStore
    /\ xpc = "idle"
    /\ x = NoDeleteLocals
    /\ xerr = ""
    /\ xcalls = <<>>
    /\ xpre = EmptyStore
    /\ dataVol = [v \in VMIDs |-> 0]
    /\ opc = "idle"
    /\ o = NoCmdLocals
    /\ oerr = ""
    /\ ocalls = <<>>
    /\ nclient = <<>>

Next ==
    \/ \E name \in Names, cloud \in CloudNames, release \in Releases :
          DeployStart(name, cloud, release)
    \/ DeployGetCloud
    \/ DeployInit
    \/ DeployGetImages
    \/ DeployAddImage
    \/ DeployGenerateKey
    \/ DeployNewInstance
    \/ DeployGetInstanceInfo("GetInstanceInfo1")
    \/ DeploySaveInstance1
    \/ DeployNewVolume
    \/ DeployAttachVolume
    \/ DeployStartInstance
    \/ DeployGetInstanceInfo("GetInstanceInfo2")
    \/ DeploySaveInstance2
    \/ DeployExit
    \/ \E name \in Names : DeleteStart(name)
    \/ DeleteGetInstance
    \/ DeleteGetCloud
    \/ DeleteInit
    \/ DeleteStopInstance
    \/ DeleteGetInstanceInfo
    \/ DeleteDeleteInstance
    \/ DeleteDeleteVolume
    \/ DeleteStoreDelete
    \/ DeleteExit
    \/ \E name \in CloudNames : AddCloudProvider(name)
    \/ \E name \in CloudNames : DeleteCloudProvider(name)
    \/ \E v \in VMIDs : ExternalAttachVolume(v)

Spec == Init /\ [][Next]_vars

\* deploy, delete and the cloud accounts together with the start, stop,
\* tunnel and key commands
NextCommands ==
    \/ \E name \in Names, cloud \in CloudNames, release \in Releases :
          DeployStart(name, cloud, release)
    \/ DeployGetCloud
    \/ DeployInit
    \/ DeployGetImages
    \/ DeployAddImage
    \/ DeployGenerateKey
    \/ DeployNewInstance
    \/ DeployGetInstanceInfo("GetInstanceInfo1")
    \/ DeploySaveInstance1
    \/ DeployNewVolume
    \/ DeployAttachVolume
    \/ DeployStartInstance
    \/ DeployGetInstanceInfo("GetInstanceInfo2")
    \/ DeploySaveInstance2
    \/ DeployExit
    \/ \E name \in Names : DeleteStart(name)
    \/ DeleteGetInstance
    \/ DeleteGetCloud
    \/ DeleteInit
    \/ DeleteStopInstance
    \/ DeleteGetInstanceInfo
    \/ DeleteDeleteInstance
    \/ DeleteDeleteVolume
    \/ DeleteStoreDelete
    \/ DeleteExit
    \/ \E name \in CloudNames : AddCloudProvider(name)
    \/ \E name \in CloudNames : DeleteCloudProvider(name)
    \/ \E cmd \in Commands, name \in Names : CommandStart(cmd, name)
    \/ CommandGetInstance
    \/ PowerGetCloud
    \/ PowerInit
    \/ PowerSwitch
    \/ CommandLoadKey
    \/ TunnelStart
    \/ TunnelNotify
    \/ Signal
    \/ CatchSignals
    \/ TunnelQuit
    \/ TunnelClose
    \/ KeyPrint
    \/ CommandExit

SpecCommands == Init /\ [][NextCommands]_vars

\* deploy and delete, one after the other, at a provider that has room for
\* one more instance than in Spec
NextRedeploy ==
    \/ \E name \in Names, cloud \in CloudNames, release \in Releases :
          DeployStart(name, cloud, release)
    \/ DeployGetCloud
    \/ DeployInit
    \/ DeployGetImages
    \/ DeployAddImage
    \/ DeployGenerateKey
    \/ RedeployNewInstance
    \/ DeployGetInstanceInfo("GetInstanceInfo1")
    \/ DeploySaveInstance1
    \/ DeployNewVolume
    \/ DeployAttachVolume
    \/ DeployStartInstance
    \/ DeployGetInstanceInfo("GetInstanceInfo2")
    \/ DeploySaveInstance2
    \/ DeployExit
    \/ \E name \in Names : DeleteStart(name)
    \/ DeleteGetInstance
    \/ DeleteGetCloud
    \/ DeleteInit
    \/ DeleteStopInstance
    \/ DeleteGetInstanceInfo
    \/ DeleteDeleteInstance
    \/ DeleteDeleteVolume
    \/ DeleteStoreDelete
    \/ DeleteExit
    \/ \E name \in CloudNames : AddCloudProvider(name)

SpecRedeploy == Init /\ [][NextRedeploy]_vars

----------------------------------------------------------------------------
(* Two processes: a deploy command and, started from another process while *)
(* the deploy is between its second GetInstanceInfo and its final          *)
(* SaveInstance, a delete command that runs to its end before the deploy   *)
(* goes on.  The store has no lock that would prevent it.                  *)

\* a delete command is started while deployInstance is about to save the
\* final record
WindowDeleteStart(name) ==
    /\ dpc = "SaveInstance2"
    /\ DeleteBegin(name)

\* the final save of the deploy, once no delete is under way
WindowSaveInstance2 ==
    /\ xpc \in {"idle", "done"}
    /\ DeploySaveInstance2

NextWindow ==
    \/ \E name \in CloudNames : AddCloudProvider(name)
    \/ \E name \in Names, cloud \in CloudNames, release \in Releases :
          DeployStart(name, cloud, release)
    \/ DeployGetCloud
    \/ DeployInit
    \/ DeployGetImages
    \/ DeployAddImage
    \/ DeployGenerateKey
    \/ DeployNewInstance
    \/ DeployGetInstanceInfo("GetInstanceInfo1")
    \/ DeploySaveInstance1
    \/ DeployNewVolume
    \/ DeployAttachVolume
    \/ DeployStartInstance
    \/ DeployGetInstanceInfo("GetInstanceInfo2")
    \/ WindowSaveInstance2
    \/ \E name \in Names : WindowDeleteStart(name)
    \/ DeleteGetInstance
    \/ DeleteGetCloud
    \/ DeleteInit
    \/ DeleteStopInstance
    \/ DeleteGetInstanceInfo
    \/ DeleteDeleteInstance
    \/ DeleteDeleteVolume
    \/ DeleteStoreDelete

SpecWindow == Init /\ [][NextWindow]_vars

----------------------------------------------------------------------------
(* Calls of cloud.NewClient *)

NextNewClient ==
    \E cloud \in ProviderNames, outcome \in Outcomes : NewClientCall(cloud, outcome)

SpecNewClient == Init /\ [][NextNewClient]_vars

----------------------------------------------------------------------------
(* Reading a run's call log *)

OpsOf(calls) == [i \in 1..Len(calls) |-> calls[i].op]

IsPrefix(s, t) == Len(s) <= Len(t) /\ \A i \in 1..Len(s) : s[i] = t[i]

Indices(calls, op) == {i \in 1..Len(calls) : calls[i].op = op}

Called(calls, op) == Indices(calls, op) # {}

Succeeded(calls, op) == \E i \in Indices(calls, op) : calls[i].ok

Failed(calls, op) == \E i \in Indices(calls, op) : ~calls[i].ok

NotGetCloud(c) == c.op # "GetCloud"

\* the calls of the deploy run from Init on
ListedDeployCalls == SelectSeq(dcalls, NotGetCloud)

DeployOrderFound ==
    <<"Init", "GetImages", "GenerateKey", "NewInstance", "GetInstanceInfo",
      "SaveInstance", "NewVolume", "AttachVolume", "StartInstance",
      "GetInstanceInfo", "SaveInstance">>

DeployOrderUpload ==
    <<"Init", "GetImages", "AddImage", "GenerateKey", "NewInstance",
      "GetInstanceInfo", "SaveInstance", "NewVolume", "AttachVolume",
      "StartInstance", "GetInstanceInfo", "SaveInstance">>

----------------------------------------------------------------------------
(* C1: in every run of deployInstance the provider and store calls occur   *)
(* only in the order Init, GetImages, (AddImage), key generation,          *)
(* NewInstance, GetInstanceInfo, SaveInstance, NewVolume, AttachVolume,    *)
(* StartInstance, GetInstanceInfo, SaveInstance, and a call is issued only *)
(* after every call before it has returned success.                        *)
C1_DeployCallOrder ==
    LET L == ListedDeployCalls IN
    /\ \/ IsPrefix(OpsOf(L), DeployOrderFound)
       \/ IsPrefix(OpsOf(L), DeployOrderUpload)
    /\ \A i \in 1..(Len(L) - 1) : L[i].ok

\* a run that went through the whole order, upload included
C1_Witness ==
    /\ dpc = "done"
    /\ derr = ""
    /\ OpsOf(ListedDeployCalls) = DeployOrderUpload

(* C2: when the image "protos-" + release.Version is absent from the       *)
(* images GetImages returned, NewInstance is attempted only after exactly  *)
(* one AddImage call, made with the release's URL and digest, has          *)
(* succeeded, and it receives the image ID AddImage returned; when the     *)
(* image is present, AddImage is never called and NewInstance receives the *)
(* listed image ID.                                                        *)
C2_ImageUpload ==
    \A g \in Indices(dcalls, "GetImages") :
        dcalls[g].ok =>
            LET listed == dcalls[g].ret
                name   == ImageNameOf(d.release.Version)
                adds   == Indices(dcalls, "AddImage")
                news   == Indices(dcalls, "NewInstance")
            IN  IF name \in DOMAIN listed
                THEN /\ adds = {}
                     /\ \A n \in news : dcalls[n].arg[2] = listed[name]
                ELSE /\ Cardinality(adds) <= 1
                     /\ \A a \in adds :
                          /\ dcalls[a].arg[1] = d.release.CloudImages["scaleway"].URL
                          /\ dcalls[a].arg[2] = d.release.CloudImages["scaleway"].Digest
                     /\ \A n \in news :
                          \E a \in adds : /\ a < n
                                          /\ dcalls[a].ok
                                          /\ dcalls[n].arg[2] = dcalls[a].ret

\* NewInstance has been attempted in a run that had to upload the image
C2_Witness ==
    /\ Called(dcalls, "AddImage")
    /\ Called(dcalls, "NewInstance")

EarlySteps == {"GetCloud", "Init", "GetImages", "AddImage", "Release", "GenerateKey"}

(* C3: if deployInstance fails at the cloud lookup, Init, GetImages,       *)
(* AddImage, the release lookup or the key generation, it returns an error *)
(* and NewInstance and NewVolume are never called in that run and the      *)
(* store is not written.                                                   *)
C3_EarlyFailure ==
    /\ \A i \in 1..Len(dcalls) :
          (~dcalls[i].ok /\ dcalls[i].op \in EarlySteps) =>
              (dpc = "done" /\ derr = dcalls[i].op)
    /\ \A g \in Indices(dcalls, "GetImages") :
          ( /\ dcalls[g].ok
            /\ ImageNameOf(d.release.Version) \notin DOMAIN dcalls[g].ret
            /\ "scaleway" \notin DOMAIN d.release.CloudImages )
          => (dpc = "done" /\ derr = "Release")
    /\ (dpc = "done" /\ derr \in EarlySteps) =>
          /\ ~Called(dcalls, "NewInstance")
          /\ ~Called(dcalls, "NewVolume")
          /\ ~Called(dcalls, "SaveInstance")
          /\ instances = dpre

\* the run ended with the error of the key generation
C3_Witness ==
    /\ dpc = "done"
    /\ derr = "GenerateKey"
    /\ Failed(dcalls, "GenerateKey")

(* C4: a successful deployInstance run saves the record exactly twice: the *)
(* first save comes after NewInstance succeeded and before NewVolume is    *)
(* called and stores a record with a vmID and without key seed; the second *)
(* comes after StartInstance succeeded and stores a record with a key      *)
(* seed.  Before the second save the record persisted for the run's        *)
(* instance holds no key seed.                                             *)
C4_TwoCheckpoints ==
    LET saves == Indices(dcalls, "SaveInstance")
        saved == {s \in saves : dcalls[s].ok}
    IN
    /\ (dpc = "done" /\ derr = "") =>
          \E s1, s2 \in saves :
            /\ s1 < s2
            /\ saves = {s1, s2}
            /\ saved = saves
            /\ \E n \in Indices(dcalls, "NewInstance") :
                  /\ n < s1
                  /\ dcalls[n].ok
                  /\ dcalls[s1].arg[1].VMID = dcalls[n].ret
            /\ \A v \in Indices(dcalls, "NewVolume") : s1 < v
            /\ dcalls[s1].arg[1].VMID # 0
            /\ dcalls[s1].arg[1].KeySeed = 0
            /\ \E t \in Indices(dcalls, "StartInstance") : t < s2 /\ dcalls[t].ok
            /\ dcalls[s2].arg[1].KeySeed # 0
            /\ instances[d.name] = dcalls[s2].arg[1]
    /\ (d.vmID # 0 /\ Cardinality(saved) < 2) =>
          \A n \in Names : instances[n].VMID = d.vmID => instances[n].KeySeed = 0
    /\ (d.vmID # 0 /\ Cardinality(saved) = 1) =>
          /\ instances[d.name].VMID = d.vmID
          /\ instances[d.name].KeySeed = 0

\* deployInstance returned without error and the record holds the seed
C4_Witness ==
    /\ dpc = "done"
    /\ derr = ""
    /\ instances[d.name].KeySeed # 0

StepsAfterCheckpoint ==
    {"NewVolume", "AttachVolume", "StartInstance", "GetInstanceInfo2", "SaveInstance2"}

StepsAfterNewInstance ==
    {"GetInstanceInfo1", "SaveInstance1"} \cup StepsAfterCheckpoint

\* the store holds a record under the run's instance name with the new vmID
RecordOfRun ==
    /\ HasInstance(d.name)
    /\ d.vmID # 0
    /\ instances[d.name].VMID = d.vmID

(* C5 as claimed: once NewInstance has succeeded, a failure of any later   *)
(* step, the first GetInstanceInfo and the first SaveInstance included,    *)
(* leaves a record for the instance name with the new vmID in the store.   *)
C5_Original ==
    (dpc = "done" /\ derr \in StepsAfterNewInstance) => RecordOfRun

(* C5 amended: once the first SaveInstance has succeeded, a failure of any *)
(* later step (NewVolume, AttachVolume, StartInstance, the second          *)
(* GetInstanceInfo, the second SaveInstance) leaves a record for the       *)
(* instance name with the new vmID in the store.                           *)
C5_RecordAfterCheckpoint ==
    (dpc = "done" /\ derr \in StepsAfterCheckpoint) => RecordOfRun

\* the run failed at StartInstance and its record is in the store
C5_Witness ==
    /\ dpc = "done"
    /\ derr = "StartInstance"
    /\ RecordOfRun

(* C6: in every reachable state a persisted record has a key seed only if  *)
(* StartInstance succeeded for the record's vmID in the deploy run that    *)
(* created that instance.                                                  *)
C6_SeedOnlyAfterStart ==
    \A n \in Names :
        instances[n].KeySeed # 0 =>
            /\ instances[n].VMID \in VMIDs
            /\ progress[instances[n].VMID] = "started"

\* a record with a key seed is in the store after the run has ended
C6_Witness ==
    /\ Idle
    /\ \E n \in Names : instances[n].KeySeed # 0

(* C7 as claimed: whenever StartInstance succeeded in a run that reached   *)
(* the first checkpoint, the persisted record contains the key seed once   *)
(* the run has ended.                                                      *)
C7_Original ==
    (dpc = "done" /\ Succeeded(dcalls, "StartInstance")) =>
        (HasInstance(d.name) /\ instances[d.name].KeySeed # 0)

(* C7 amended: after a run that reached the first checkpoint has ended,    *)
(* the persisted record lacks the key seed only if StartInstance failed or *)
(* was not reached, or the second GetInstanceInfo or the second            *)
(* SaveInstance failed: whenever the run returned without error, the       *)
(* persisted record contains the key seed of the run's key.                *)
C7_SeedAfterSuccess ==
    ( /\ dpc = "done"
      /\ Succeeded(dcalls, "StartInstance")
      /\ derr \notin {"GetInstanceInfo2", "SaveInstance2"} ) =>
        /\ derr = ""
        /\ RecordOfRun
        /\ instances[d.name].KeySeed = d.key.seed
        /\ d.key.seed # 0

\* the run returned without error after a successful StartInstance
C7_Witness ==
    /\ dpc = "done"
    /\ derr = ""
    /\ Succeeded(dcalls, "StartInstance")
    /\ instances[d.name].KeySeed = d.key.seed

ProviderOps ==
    {"Init", "GetImages", "AddImage", "NewInstance", "GetInstanceInfo", "NewVolume",
     "AttachVolume", "StartInstance", "StopInstance", "DeleteInstance", "DeleteVolume"}

\* the run issued provider calls and none of them failed
ProviderCallsSucceeded(calls) ==
    /\ Called(calls, "Init")
    /\ \A i \in 1..Len(calls) : calls[i].op \in ProviderOps => calls[i].ok

(* C8: if AttachVolume fails during deployInstance, the persisted record   *)
(* exists with a vmID and an empty volume list, and a later deleteInstance *)
(* of that record whose provider calls all succeed returns no error and    *)
(* removes the record.                                                     *)
C8_AttachFailure ==
    /\ (dpc = "done" /\ derr = "AttachVolume") =>
          /\ RecordOfRun
          /\ instances[d.name].Volumes = <<>>
    /\ (xpc = "done" /\ x.was = "attachFailed" /\ ProviderCallsSucceeded(xcalls)) =>
          /\ x.instance.VMID # 0
          /\ x.instance.Volumes = <<>>
          /\ xerr = ""
          /\ ~HasInstance(x.name)

\* the record of a run that failed at AttachVolume has been deleted
C8_Witness ==
    /\ xpc = "done"
    /\ x.was = "attachFailed"
    /\ ProviderCallsSucceeded(xcalls)
    /\ ~HasInstance(x.name)

\* the calls deleteInstance issues when every volume deletion is reached
DeleteOrder(volumes) ==
    <<"GetInstance", "GetCloud", "Init", "StopInstance", "GetInstanceInfo",
      "DeleteInstance">>
    \o [k \in 1..Len(volumes) |-> "DeleteVolume"]
    \o <<"StoreDeleteInstance">>

AbortingDeleteSteps ==
    {"GetInstance", "GetCloud", "Init", "StopInstance", "GetInstanceInfo",
     "DeleteInstance"}

(* C9: deleteInstance issues StopInstance, GetInstanceInfo, DeleteInstance, *)
(* DeleteVolume for each listed volume and the store's DeleteInstance in   *)
(* this order, the store's DeleteInstance last; if the record or cloud     *)
(* lookup, Init, StopInstance, GetInstanceInfo or the provider's           *)
(* DeleteInstance fails, it returns that error at once, issues no later    *)
(* operation and the store is left unchanged.                              *)
C9_DeleteOrder ==
    /\ IsPrefix(OpsOf(xcalls), DeleteOrder(x.vmInfo.Volumes))
    /\ \A i \in Indices(xcalls, "DeleteVolume") :
          xcalls[i].arg[1] = x.vmInfo.Volumes[i - 6]
    /\ \A i \in 1..Len(xcalls) :
          (~xcalls[i].ok /\ xcalls[i].op \in AbortingDeleteSteps) =>
              /\ i = Len(xcalls)
              /\ xpc = "done"
              /\ xerr = xcalls[i].op
              /\ instances = xpre
    /\ \A i \in Indices(xcalls, "StoreDeleteInstance") :
          i = Len(xcalls) /\ xpc = "done"
    /\ (xpc # "idle" /\ ~Called(xcalls, "StoreDeleteInstance")) => instances = xpre

\* the provider refused to delete the instance: the record is still there
C9_Witness ==
    /\ xpc = "done"
    /\ xerr = "DeleteInstance"
    /\ HasInstance(x.name)
    /\ instances = xpre

(* C10: once the provider's DeleteInstance has succeeded, DeleteVolume is  *)
(* called exactly once for every volume of the fetched instance info,      *)
(* whatever the other DeleteVolume calls returned, and the record is then  *)
(* removed from the store; deleteInstance does not return the error of a   *)
(* volume deletion.                                                        *)
C10_VolumeFailuresTolerated ==
    (xpc = "done" /\ Succeeded(xcalls, "DeleteInstance")) =>
        /\ \A k \in 1..Len(x.vmInfo.Volumes) :
              Cardinality({i \in Indices(xcalls, "DeleteVolume") :
                              xcalls[i].arg[1] = x.vmInfo.Volumes[k]}) = 1
        /\ Cardinality(Indices(xcalls, "DeleteVolume")) = Len(x.vmInfo.Volumes)
        /\ Called(xcalls, "StoreDeleteInstance")
        /\ ~HasInstance(x.name)
        /\ xerr = ""

\* of two volumes the first could not be deleted, the second was
C10_Witness ==
    /\ xpc = "done"
    /\ Len(x.vmInfo.Volumes) = 2
    /\ \E i, j \in Indices(xcalls, "DeleteVolume") :
          i < j /\ ~xcalls[i].ok /\ xcalls[j].ok
    /\ ~HasInstance(x.name)

\* the provider operations deployInstance issues once
OnceOps ==
    {"Init", "GetImages", "AddImage", "NewInstance", "NewVolume",
     "AttachVolume", "StartInstance"}

\* the provider operations that would undo a deployment
RollbackOps == {"StopInstance", "DeleteInstance", "DeleteVolume"}

C12_ReleaseForActiveProvider ==
    /\ \A g \in Indices(dcalls, "GetImages") :
          ( /\ dcalls[g].ok
            /\ ImageNameOf(d.release.Version) \notin DOMAIN dcalls[g].ret )
          => ( (cloudType[d.cloud] \notin DOMAIN d.release.CloudImages)
               <=> (dpc = "done" /\ derr = "Release") )
    /\ derr = "Release" =>
          /\ Succeeded(dcalls, "GetImages")
          /\ ~Called(dcalls, "AddImage")
          /\ ~Called(dcalls, "NewInstance")

\* a release without an image for the account's provider type was refused
C12_Witness ==
    /\ derr = "Release"
    /\ cloudType[d.cloud] = Scaleway
    /\ cloudType[d.cloud] \notin DOMAIN d.release.CloudImages
    /\ DOMAIN d.release.CloudImages # {}

----------------------------------------------------------------------------
(* C13: tunnelInstance reconstructs a key and calls tunnel.Start only      *)
(* after GetInstance returned a record with a non-empty key seed; so a     *)
(* tunnel is started only against the persisted record of an instance      *)
(* whose deployment had a successful StartInstance and wrote the key seed  *)
(* in its final save.                                                      *)
C13_TunnelOnlyWithSeed ==
    o.cmd = "tunnel" =>
        /\ (Called(ocalls, "NewKeyFromSeed") \/ Called(ocalls, "Start")) =>
              /\ Succeeded(ocalls, "GetInstance")
              /\ o.instance.KeySeed # 0
        /\ Called(ocalls, "Start") =>
              /\ HasInstance(o.name)
              /\ instances[o.name] = o.instance
              /\ o.instance.KeySeed \in Seeds
              /\ o.instance.VMID \in VMIDs
              /\ progress[o.instance.VMID] = "started"

\* a tunnel has been started
C13_Witness ==
    /\ o.cmd = "tunnel"
    /\ Succeeded(ocalls, "Start")
    /\ o.tunnel = "open"

(* C14: once tunnel.Start has succeeded, tunnelInstance returns only after *)
(* exactly one tunnel.Close call, and a process to which SIGINT or SIGTERM *)
(* was delivered after that does not end before tunnel.Close was called;   *)
(* if tunnel.Start fails, the function returns its error without waiting   *)
(* for a signal and without calling tunnel.Close.                          *)
C14_CloseOnSignal ==
    o.cmd = "tunnel" =>
        /\ Cardinality(Indices(ocalls, "Close")) <= 1
        /\ (Succeeded(ocalls, "Start") /\ opc = "done") =>
              Cardinality(Indices(ocalls, "Close")) = 1
        /\ (o.signalled /\ opc \in {"done", "killed"}) => Called(ocalls, "Close")
        /\ Failed(ocalls, "Start") =>
              /\ opc = "done"
              /\ oerr = "Start"
              /\ ~o.notify
              /\ ~Called(ocalls, "Close")

InitFirst(calls) ==
    \A i \in 1..Len(calls) :
        (calls[i].op \in ProviderOps \ {"Init"}) =>
            \E j \in 1..(i - 1) : calls[j].op = "Init" /\ calls[j].ok

\* an Init call that failed is the last call and the function returned its
\* error; the log holds no call that writes the store
InitFailureEnds(calls, pc, err) ==
    \A i \in 1..Len(calls) :
        (calls[i].op = "Init" /\ ~calls[i].ok) =>
            /\ i = Len(calls)
            /\ pc = "done"
            /\ err = "Init"
            /\ ~Called(calls, "SaveInstance")
            /\ ~Called(calls, "StoreDeleteInstance")

(* C16: in deployInstance, deleteInstance, startInstance and stopInstance  *)
(* every other provider operation is called only after Init has returned   *)
(* success; if Init fails the function returns an error, calls no other    *)
(* provider operation and does not write the store.                        *)
C16_InitFirst ==
    /\ InitFirst(dcalls)
    /\ InitFirst(xcalls)
    /\ InitFirst(ocalls)
    /\ InitFailureEnds(dcalls, dpc, derr)
    /\ InitFailureEnds(xcalls, xpc, xerr)
    /\ InitFailureEnds(ocalls, opc, oerr)
    /\ Failed(dcalls, "Init") => instances = dpre
    /\ Failed(xcalls, "Init") => instances = xpre
    /\ (o.cmd \in {"start", "stop"} /\ opc = "done" /\ oerr = "") =>
          /\ Succeeded(ocalls, "Init")
          /\ Succeeded(ocalls, PowerOp(o.cmd))

\* stopInstance has stopped an instance, Init having succeeded before
C16_Witness ==
    /\ o.cmd = "stop"
    /\ Succeeded(ocalls, "Init")
    /\ Succeeded(ocalls, "StopInstance")

----------------------------------------------------------------------------
\* the deploy run that created the instance saved its first record
Persisted(v) == progress[v] \in {"saved", "attachFailed", "started"}

(* C17: whenever no operation is running, every remote instance that a     *)
(* deploy run created and persisted at its first checkpoint and that still *)
(* exists on the provider is the vmID of some record in the store.         *)
C17_NoOrphan ==
    Idle =>
        \A v \in VMIDs :
            (VMExists(v) /\ Persisted(v)) =>
                \E n \in Names : HasInstance(n) /\ instances[n].VMID = v

\* deleteInstance has returned for the instance of a deploy run that got
\* its data volume from NewVolume, and no provider call of the delete failed
DeletedAfterNewVolume ==
    /\ xpc = "done"
    /\ ProviderCallsSucceeded(xcalls)
    /\ x.instance.VMID \in VMIDs
    /\ dataVol[x.instance.VMID] # 0

\* C18 as stated: the volume that deploy run created is gone
C18_Original ==
    DeletedAfterNewVolume => vols[dataVol[x.instance.VMID]] = "deleted"

(* C18: after a deploy run followed by a deleteInstance of the same name   *)
(* in which every provider call succeeds, every volume the provider        *)
(* reported as attached to the instance is deleted, among them the data    *)
(* volume of a deploy run whose AttachVolume succeeded; the data volume of *)
(* a run whose AttachVolume failed is still on the provider.               *)
C18_AttachedVolumesDeleted ==
    /\ (xpc = "done" /\ ProviderCallsSucceeded(xcalls)) =>
          \A i \in 1..Len(x.vmInfo.Volumes) : vols[x.vmInfo.Volumes[i]] = "deleted"
    /\ DeletedAfterNewVolume =>
          IF x.was = "attachFailed"
          THEN vols[dataVol[x.instance.VMID]] = "live"
          ELSE vols[dataVol[x.instance.VMID]] = "deleted"

\* a started instance with its data volume has been deleted
C18_Witness ==
    /\ DeletedAfterNewVolume
    /\ x.was = "started"
    /\ vols[dataVol[x.instance.VMID]] = "deleted"

----------------------------------------------------------------------------
\* both commands have returned without error and were for the same name;
\* the delete ran between the second GetInstanceInfo and the final save
DeleteInsideDeploy ==
    /\ dpc = "done" /\ derr = ""
    /\ xpc = "done" /\ xerr = ""
    /\ x.name = d.name

(* C19: when a deleteInstance for the same name runs wholly between the    *)
(* second GetInstanceInfo and the final SaveInstance of a deployInstance   *)
(* and both return without error, the store ends up holding a record for   *)
(* the name that carries the key seed and the vmID of the instance the     *)
(* delete has removed from the provider; such an interleaving exists.      *)
C19_StaleRecord ==
    DeleteInsideDeploy =>
        /\ HasInstance(d.name)
        /\ instances[d.name].KeySeed = d.key.seed
        /\ instances[d.name].KeySeed # 0
        /\ instances[d.name].VMID = d.vmID
        /\ vms[d.vmID].status = "deleted"

\* the interleaving has happened: a record with key seed for a deleted instance
C19_Witness ==
    /\ DeleteInsideDeploy
    /\ Succeeded(xcalls, "DeleteInstance")
    /\ Succeeded(xcalls, "StoreDeleteInstance")
    /\ HasInstance(d.name)
    /\ instances[d.name].KeySeed # 0
    /\ ~VMExists(instances[d.name].VMID)

----------------------------------------------------------------------------
(* C20: NewClient returns the not-supported error and no client for every  *)
(* name other than "digitalocean" and "scaleway"; it never returns a       *)
(* client together with an error; and for every name SupportedProviders    *)
(* lists it does not answer "not supported" but returns what the           *)
(* provider's constructor made: its client, or else its error.             *)
C20_NewClient ==
    \A i \in 1..Len(nclient) :
        LET e == nclient[i]
            r == e.result
        IN  /\ e.cloud \notin {DigitalOcean, Scaleway} =>
                  /\ r.client = NilClient
                  /\ r.err = NotSupported(e.cloud)
            /\ ~(r.client # NilClient /\ r.err # NoError)
            /\ e.cloud \in SupportedProviders =>
                  /\ r.err # NotSupported(e.cloud)
                  /\ IF e.made.failed
                     THEN r.err # NoError
                     ELSE r = [client |-> IF e.made.hasClient
                                          THEN e.cloud \o "-client" ELSE NilClient,
                               err |-> NoError]

\* a supported name got its client and an unknown name was refused
C20_Witness ==
    /\ \E i \in 1..Len(nclient) :
          /\ nclient[i].cloud = Scaleway
          /\ nclient[i].result = [client |-> "scaleway-client", err |-> NoError]
    /\ \E i \in 1..Len(nclient) :
          /\ nclient[i].cloud = "aws"
          /\ nclient[i].result.client = NilClient
          /\ nclient[i].result.err # NoError

====
